---- MODULE Spec2Model ----
(***************************************************************************)
(* Model of the browser session pool of browser_rpc (src/cdp_client.py):   *)
(* BrowserPool (create_session, get_session, close_session, the expiry     *)
(* sweep _cleanup_expired_sessions, close_all), the asyncio.Lock guarding  *)
(* the session mapping, and the BrowserSession life cycle (initialize,     *)
(* close).                                                                 *)
(*                                                                         *)
(* The program runs on one asyncio event loop: a coroutine runs without    *)
(* interruption from one suspension point (an await on the lock or on a    *)
(* browser operation) to the next.  pc[t] is the await at which handler t  *)
(* is suspended ("idle": no call in progress).  An action of the model is  *)
(* one such stretch: the event that resumes the handler, then every        *)
(* statement up to the next await (Run).  The statements are operators on  *)
(* a record w of the whole state (World); Becomes(w) makes w the next      *)
(* state.                                                                  *)
(*                                                                         *)
(* Time: the code reads last_activity only in the test                     *)
(* time.time() - last_activity > session_timeout, so a session carries     *)
(* idle = time.time() - last_activity, which Tick advances and which stops *)
(* growing once it exceeds session_timeout.                                *)
(*                                                                         *)
(* Five specifications share the module.  Spec is the pool and its         *)
(* handlers, with the shutdown hook of the HTTP server.  AdapterSpec is    *)
(* the pool behind the HTTP adapter (src/http_server.py), whose handlers   *)
(* look a session up and call its navigate or wait_for_selector.           *)
(* InterceptorSpec is one NetworkInterceptor and the events of its page:   *)
(* on_response is suspended once, in `await response.body()`, and the      *)
(* callbacks of several responses may be in flight together.  SessionSpec  *)
(* is one BrowserSession object used by one caller whose calls follow one  *)
(* another: initialize, the ten operations (called directly or by a        *)
(* handler of the HTTP server), close.  ClientSpec is one BrowserHTTPClient *)
(* (src/http_client.py) and the answers of its server.                     *)
(***************************************************************************)
EXTENDS Naturals, Integers, Sequences, FiniteSets, TLC

\* ---------------------------------------------------------------- bounds
NumTasks == 2            \* handlers that may be in progress at once
MaxIds == 2              \* session ids the model may generate
max_sessions == 1        \* BrowserPool(max_sessions, ...): the pool's capacity
MaxRequests == 3         \* request events one interceptor observes
MaxResponses == 2        \* response events one interceptor observes

\* ------------------------------------------------- pool configuration
session_timeout == 1

Tasks == 1..NumTasks
Ids == 1..MaxIds
None == 0

VARIABLES
  sessions,          \* BrowserPool.sessions: the ids registered in the mapping
  objs,              \* the BrowserSession objects still referenced, by id
  nextId,            \* the next fresh identifier (uuid4 never repeats)
  locked,            \* asyncio.Lock._locked
  waiters,           \* asyncio.Lock._waiters, FIFO
  pc,                \* per handler: the await it is suspended at
  cur,               \* per handler: the session id of the call in progress
  ret,               \* per handler: the callers awaiting the running callee
  expired_sessions,  \* per handler: the sweep's list still to close
  todo,              \* per handler: close_all's iteration still to visit
  holding,           \* per handler: `async with self._lock` blocks it is inside
  snap,              \* per handler: the mapping when its call took the lock
  last,              \* the call that returned in the last step, if any
  \* one NetworkInterceptor
  requests,          \* NetworkInterceptor.requests: the stored records, in order
  url_pattern,       \* NetworkInterceptor.url_pattern (<<>>: None or '', no filter)
  inflight,          \* on_response callbacks suspended in `await response.body()`
  next_request_id,   \* the next fresh request_id (uuid4 never repeats)
  next_response,     \* the number of the next response event
  dropped,           \* the stored record whose response on_response dropped last
  event,             \* the interceptor event or call of the last step, if any
  \* one BrowserSession used by one caller
  session,           \* its resources and last_activity (as in objs)
  custom_headers,    \* BrowserSession.custom_headers
  handed,            \* the mapping last handed to context.set_extra_http_headers
  argument,          \* the headers or selector of the last operation that passed its test
  called,            \* the life-cycle methods called so far (initialize, close)
  where,             \* the await at which the caller's call is suspended
  op_running,        \* the operation suspended in the capability
  close_from,        \* who called the close that is running
  invocations,       \* the capability operations the last operation call has awaited
  attempted,         \* the releases the last call of close has awaited
  via,               \* the HTTP handler that made the last call ("none": a direct call)
  shot,              \* the screenshot the last operation call asked the capability for
  outcome,           \* what the call that ended in the last step returned or raised
  \* one BrowserHTTPClient used by one caller
  client_session_id, \* BrowserHTTPClient.session_id
  client_created,    \* create_session has returned an identifier at least once
  client_where,      \* "awaiting": the caller's call awaits the server's response
  client_op,         \* the method that awaits the response
  client_outcome     \* the call that ended in the last step, and whether it sent a request

poolvars == <<sessions, objs, nextId, locked, waiters, pc, cur, ret,
              expired_sessions, todo, holding, snap, last>>

interceptorvars == <<requests, url_pattern, inflight, next_request_id,
                     next_response, dropped, event>>

sessionvars == <<session, custom_headers, handed, argument, called, where,
                 op_running, close_from, invocations, attempted, via,
                 shot, outcome>>

clientvars == <<client_session_id, client_created, client_where, client_op,
                client_outcome>>

vars == <<poolvars, interceptorvars, sessionvars, clientvars>>

World ==
  [sessions |-> sessions, objs |-> objs, nextId |-> nextId, locked |-> locked,
   waiters |-> waiters, pc |-> pc, cur |-> cur, ret |-> ret,
   expired_sessions |-> expired_sessions, todo |-> todo, holding |-> holding,
   snap |-> snap, last |-> last]

Becomes(w) ==
  \E v \in {w} :
    /\ sessions' = v.sessions
    /\ objs' = v.objs
    /\ nextId' = v.nextId
    /\ locked' = v.locked
    /\ waiters' = v.waiters
    /\ pc' = v.pc
    /\ cur' = v.cur
    /\ ret' = v.ret
    /\ expired_sessions' = v.expired_sessions
    /\ todo' = v.todo
    /\ holding' = v.holding
    /\ snap' = v.snap
    /\ last' = v.last
    /\ UNCHANGED <<interceptorvars, sessionvars, clientvars>>

\* ------------------------------------------------------------ helpers
SetToSeq(S) ==
  LET RECURSIVE build(_)
      build(R) == IF R = {} THEN <<>>
                  ELSE LET m == CHOOSE x \in R : \A y \in R : x <= y
                       IN <<m>> \o build(R \ {m})
  IN build(S)

Push(stack, x) == <<x>> \o stack
Top(stack) == IF stack = <<>> THEN "none" ELSE Head(stack)
Pop(stack) == IF stack = <<>> THEN <<>> ELSE Tail(stack)

\* the objects of o that are still referenced (the others are garbage)
Keep(o, ids) == [i \in (DOMAIN o) \cap ids |-> o[i]]

NoReturn == [op |-> "none", id |-> None, value |-> "none", closes |-> 0]

\* BrowserSession.__init__: nothing allocated, last_activity = time.time()
NewSession ==
  [playwright |-> FALSE, browser |-> FALSE, context |-> FALSE, page |-> FALSE,
   hooks |-> FALSE, initialized |-> FALSE, idle |-> 0, closeCalls |-> 0]

\* BrowserPool.get_session: a plain dictionary lookup
get_session(id) == IF id \in sessions THEN id ELSE None

\* (mutant: the lock is not consulted)
CanAcquireMutant(lk, wt) == TRUE

\* asyncio.Lock.acquire takes the lock at once only when it is free and
\* nobody is queued; otherwise the caller queues and suspends
CanAcquire(lk, wt) == ~lk /\ wt = <<>>

\* (mutant: >= for >)
IsExpiredMutant(idle) == idle >= session_timeout

\* the test of _cleanup_expired_sessions
IsExpired(idle) == idle > session_timeout

\* (mutant: > for >=)
AtCapacityMutant(n) == n > max_sessions

\* the capacity test of create_session
AtCapacity(n) == n >= max_sessions

ExpiredIds(w) == {s \in w.sessions : IsExpired(w.objs[s].idle)}

\* BrowserSession.close: the first resource that is still set
NextRelease(rec) ==
  IF rec.page THEN "close_page"
  ELSE IF rec.context THEN "close_context"
  ELSE IF rec.browser THEN "close_browser"
  ELSE IF rec.playwright THEN "close_playwright"
  ELSE "close_ret"

CloseAwaits == {"close_page", "close_context", "close_browser", "close_playwright"}

ReleasedField(rec, at) ==
  CASE at = "close_page" -> [rec EXCEPT !.page = FALSE]
    [] at = "close_context" -> [rec EXCEPT !.context = FALSE]
    [] at = "close_browser" -> [rec EXCEPT !.browser = FALSE]
    [] at = "close_playwright" -> [rec EXCEPT !.playwright = FALSE]

\* BrowserSession.initialize: its awaits, in order
InitSteps == <<"init_playwright", "init_launch", "init_context", "init_script",
               "init_stealth_js", "init_page", "init_stealth", "init_evaluate">>

InitAwaits == {InitSteps[i] : i \in 1..Len(InitSteps)}

InitIndex(p) == CHOOSE i \in 1..Len(InitSteps) : InitSteps[i] = p

Allocated(rec, p) ==
  CASE p = "init_playwright" -> [rec EXCEPT !.playwright = TRUE]
    [] p = "init_launch" -> [rec EXCEPT !.browser = TRUE]
    [] p = "init_context" -> [rec EXCEPT !.context = TRUE]
    [] p = "init_page" -> [rec EXCEPT !.page = TRUE]
    [] OTHER -> rec

LockWaits == {"cs_lock_wait", "cl_lock_wait", "ca_lock_wait"}

AfterAcquire(p) ==
  CASE p = "cs_lock_wait" -> "cs_cleanup"
    [] p = "cl_lock_wait" -> "cl_pop"
    [] p = "ca_lock_wait" -> "ca_start"

\* the positions at which a handler is suspended
Suspended == {"idle"} \cup LockWaits \cup InitAwaits \cup CloseAwaits

\* ------------------------------------------------------------ initial state
NoEvent == [op |-> "none", url |-> <<>>, pattern |-> <<>>, result |-> <<>>]

\* NetworkInterceptor.__init__
InterceptorInit ==
  /\ requests = <<>>
  /\ url_pattern = <<>>
  /\ inflight = {}
  /\ next_request_id = 1
  /\ next_response = 1
  /\ dropped = None
  /\ event = NoEvent

NoOutcome == [op |-> "none", value |-> "none"]

\* BrowserSession.__init__, and no call made yet
SessionInit ==
  /\ session = NewSession
  /\ custom_headers = <<>>
  /\ handed = <<>>
  /\ argument = <<>>
  /\ called = {}
  /\ where = "idle"
  /\ op_running = "none"
  /\ close_from = "none"
  /\ invocations = 0
  /\ attempted = {}
  /\ via = "none"
  /\ shot = "none"
  /\ outcome = NoOutcome

NoClientOutcome == [op |-> "none", value |-> "none", sent |-> FALSE]

\* BrowserHTTPClient.__init__, and no call made yet
ClientInit ==
  /\ client_session_id = None
  /\ client_created = FALSE
  /\ client_where = "idle"
  /\ client_op = "none"
  /\ client_outcome = NoClientOutcome

Init ==
  /\ InterceptorInit
  /\ SessionInit
  /\ ClientInit
  /\ sessions = {}
  /\ objs = <<>>
  /\ nextId = 1
  /\ locked = FALSE
  /\ waiters = <<>>
  /\ pc = [t \in Tasks |-> "idle"]
  /\ cur = [t \in Tasks |-> None]
  /\ ret = [t \in Tasks |-> <<>>]
  /\ expired_sessions = [t \in Tasks |-> <<>>]
  /\ todo = [t \in Tasks |-> <<>>]
  /\ holding = [t \in Tasks |-> 0]
  /\ snap = [t \in Tasks |-> {}]
  /\ last = NoReturn

\* ------------------------------------------------------------ the lock
\* `async with self._lock`, entry: go on at okpc, or queue and suspend at waitpc
Acquire(w, t, okpc, waitpc) ==
  IF CanAcquire(w.locked, w.waiters)
  THEN [w EXCEPT !.locked = TRUE, !.holding[t] = @ + 1, !.pc[t] = okpc]
  ELSE [w EXCEPT !.waiters = Append(@, t), !.pc[t] = waitpc]

\* `async with self._lock`, exit: asyncio.Lock.release
Release(w, t) == [w EXCEPT !.locked = FALSE, !.holding[t] = @ - 1]

\* the call returns value (or raises it) to the adapter and the handler ends:
\* its locals are dropped, and with them the objects nothing else refers to
Return(w, t, op, value) ==
  LET id == w.cur[t]
      closes == IF id \in DOMAIN w.objs THEN w.objs[id].closeCalls ELSE 0
  IN [w EXCEPT !.last = [op |-> op, id |-> id, value |-> value, closes |-> closes],
               !.pc[t] = "idle",
               !.cur[t] = None,
               !.snap[t] = {},
               !.expired_sessions[t] = <<>>,
               !.todo[t] = <<>>,
               !.objs = Keep(@, w.sessions \cup
                                {w.cur[u] : u \in {v \in Tasks \ {t} :
                                     w.pc[v] \in InitAwaits \cup CloseAwaits}})]

\* a call of BrowserSession.close by the statement named from
CallClose(w, t, from) ==
  [w EXCEPT !.objs[w.cur[t]].closeCalls = @ + 1,
            !.ret[t] = Push(@, from),
            !.pc[t] = "close_run"]

\* ------------------------------------------------------------ create_session
\* the lock is taken: await self._cleanup_expired_sessions()
\* first loop of the sweep: collect the expired ids
cleanup_scan(w, t) ==
  [w EXCEPT !.snap[t] = w.sessions,
            !.expired_sessions[t] = SetToSeq(ExpiredIds(w)),
            !.pc[t] = "cleanup_loop"]

\* second loop of the sweep: await self.close_session(session_id)
cleanup_loop(w, t) ==
  IF w.expired_sessions[t] = <<>>
  THEN [w EXCEPT !.pc[t] = "cs_check"]
  ELSE Acquire([w EXCEPT !.cur[t] = Head(w.expired_sessions[t]),
                         !.expired_sessions[t] = Tail(@),
                         !.ret[t] = Push(@, "cleanup")],
               t, "cl_pop", "cl_lock_wait")

\* (mutant: the identifier is generated before the capacity check)
capacity_check_IdFirst(w, t) ==
  IF AtCapacity(Cardinality(w.sessions))
  THEN Return(Release([w EXCEPT !.nextId = @ + 1], t), t, "create_session",
              "PoolExhausted")
  ELSE [w EXCEPT !.objs = (w.nextId :> NewSession) @@ @,
                 !.nextId = @ + 1,
                 !.cur[t] = w.nextId,
                 !.pc[t] = "init_playwright"]

\* (mutant: the session is registered before it is initialized)
capacity_check_RegisterFirst(w, t) ==
  IF AtCapacity(Cardinality(w.sessions))
  THEN Return(Release(w, t), t, "create_session", "PoolExhausted")
  ELSE [w EXCEPT !.objs = (w.nextId :> NewSession) @@ @,
                 !.sessions = @ \cup {w.nextId},
                 !.nextId = @ + 1,
                 !.cur[t] = w.nextId,
                 !.pc[t] = "init_playwright"]

\* (mutant: the identifier is the first one that is not registered)
capacity_check_ReuseId(w, t) ==
  IF AtCapacity(Cardinality(w.sessions))
  THEN Return(Release(w, t), t, "create_session", "PoolExhausted")
  ELSE LET id == CHOOSE i \in 1..w.nextId :
                   i \notin w.sessions /\ \A j \in 1..(i - 1) : j \in w.sessions
       IN [w EXCEPT !.objs = (id :> NewSession) @@ @,
                    !.nextId = @ + 1,
                    !.cur[t] = id,
                    !.pc[t] = "init_playwright"]

\* the capacity check; then session_id = str(uuid.uuid4()),
\* BrowserSession(session_id) and initialize up to its first await
capacity_check(w, t) ==
  IF AtCapacity(Cardinality(w.sessions))
  THEN Return(Release(w, t), t, "create_session", "PoolExhausted")
  ELSE [w EXCEPT !.objs = (w.nextId :> NewSession) @@ @,
                 !.nextId = @ + 1,
                 !.cur[t] = w.nextId,
                 !.pc[t] = "init_playwright"]

\* self.sessions[session_id] = session; return session_id
register(w, t) ==
  Return(Release([w EXCEPT !.sessions = @ \cup {w.cur[t]}], t),
         t, "create_session", "created")

\* initialize's except clause: await self.close(), then raise
init_except(w, t) == CallClose(w, t, "init_except")

\* create_session's except clause: await session.close(), then raise
create_except(w, t) == CallClose(w, t, "cs_except")

\* (mutant: the lock is not released on the error path)
create_raise_KeepsLock(w, t) == Return(w, t, "create_session", "InitFailed")

\* the error leaves create_session
create_raise(w, t) == Return(Release(w, t), t, "create_session", "InitFailed")

\* ------------------------------------------------------------ BrowserSession.close
\* the next `if self.x:` test: await the release of the first resource still set
close_run(w, t) == [w EXCEPT !.pc[t] = NextRelease(w.objs[w.cur[t]])]

\* close returns to its caller
close_return(w, t) ==
  LET from == Top(w.ret[t])
  IN [w EXCEPT !.ret[t] = Pop(@),
               !.pc[t] = CASE from = "init_except" -> "cs_except"
                           [] from = "cs_except" -> "cs_raise"
                           [] from = "close_session" -> "cl_true"
                           [] from = "close_all" -> "ca_loop"]

\* ------------------------------------------------------------ close_session
\* (mutant: get for pop)
PoppedMutant(sess, id) == sess

\* self.sessions.pop(session_id, None)
Popped(sess, id) == sess \ {id}

\* session = self.sessions.pop(session_id, None); if session: await session.close()
close_pop(w, t) ==
  IF w.cur[t] \in w.sessions
  THEN CallClose([w EXCEPT !.sessions = Popped(@, w.cur[t])], t, "close_session")
  ELSE [w EXCEPT !.pc[t] = "cl_false"]

\* return True / return False; a call made by the sweep returns into its loop
close_session_return(w, t, value) ==
  IF Top(w.ret[t]) = "cleanup"
  THEN [Release(w, t) EXCEPT !.ret[t] = Pop(@), !.pc[t] = "cleanup_loop"]
  ELSE Return(Release(w, t), t, "close_session", value)

\* ------------------------------------------------------------ close_all
\* for session in self.sessions.values():
close_all_start(w, t) ==
  [w EXCEPT !.snap[t] = w.sessions,
            !.todo[t] = SetToSeq(w.sessions),
            !.pc[t] = "ca_loop"]

\* (mutant: close_all returns with the lock held)
close_all_loop_KeepsLock(w, t) ==
  IF w.todo[t] # <<>>
  THEN CallClose([w EXCEPT !.cur[t] = Head(w.todo[t]), !.todo[t] = Tail(@)],
                 t, "close_all")
  ELSE Return([w EXCEPT !.sessions = {}], t, "close_all", "done")

\* (mutant: the mapping is not cleared)
close_all_loop_NoClear(w, t) ==
  IF w.todo[t] # <<>>
  THEN CallClose([w EXCEPT !.cur[t] = Head(w.todo[t]), !.todo[t] = Tail(@)],
                 t, "close_all")
  ELSE Return(Release(w, t), t, "close_all", "done")

\* await session.close() for the next session; after the loop
\* self.sessions.clear()
close_all_loop(w, t) ==
  IF w.todo[t] # <<>>
  THEN CallClose([w EXCEPT !.cur[t] = Head(w.todo[t]), !.todo[t] = Tail(@)],
                 t, "close_all")
  ELSE Return(Release([w EXCEPT !.sessions = {}], t), t, "close_all", "done")

\* ------------------------------------------------------------ get_session
\* (mutant: a lookup counts as activity of the session)
sessions_get_Touch(w, id) ==
  [w EXCEPT !.objs = [s \in DOMAIN @ |-> IF s = id THEN [@[s] EXCEPT !.idle = 0]
                                                   ELSE @[s]],
            !.last = [op |-> "get_session", id |-> id,
                      value |-> IF id \in w.sessions THEN "session" ELSE "None",
                      closes |-> 0]]

\* return self.sessions.get(session_id): no lock, no sweep, no await
sessions_get(w, id) ==
  [w EXCEPT !.last = [op |-> "get_session", id |-> id,
                      value |-> IF id \in w.sessions THEN "session" ELSE "None",
                      closes |-> 0]]

\* ------------------------------------------------------------ the HTTP adapter
\* http_server.get_session: the pool's lookup, HTTPException(404) when it
\* finds nothing
http_get_session(w, id) == IF id \in w.sessions THEN "session" ELSE "404"

\* what a handler answers for session id when the awaited page operation
\* answers answer: 404 from the lookup; the session's RuntimeError
\* (`if not self.page`) and the re-raised TimeoutError become
\* HTTPException(500)
Response(w, id, answer) ==
  IF http_get_session(w, id) = "404" THEN "404"
  ELSE IF ~w.objs[id].page THEN "500 RuntimeError"
  ELSE IF answer = "ok" THEN "success"
  ELSE "500 TimeoutError"

\* (mutant: an operation that failed counts as activity too)
timed_operation_Touch(w, id, answer) ==
  [w EXCEPT !.objs = IF Response(w, id, answer) \in {"success", "500 TimeoutError"}
                     THEN [@ EXCEPT ![id].idle = 0] ELSE @,
            !.last = [op |-> "timed_operation", id |-> id,
                      value |-> Response(w, id, answer), closes |-> 0]]

\* (mutant: a successful operation does not count as activity)
timed_operation_NoTouch(w, id, answer) ==
  [w EXCEPT !.last = [op |-> "timed_operation", id |-> id,
                      value |-> Response(w, id, answer), closes |-> 0]]

\* (mutant: the lookup drops a session that has expired)
timed_operation_Evict(w, id, answer) ==
  IF id \in w.sessions /\ IsExpired(w.objs[id].idle)
  THEN [w EXCEPT !.sessions = @ \ {id},
                 !.last = [op |-> "timed_operation", id |-> id, value |-> "404",
                           closes |-> 0]]
  ELSE [w EXCEPT !.objs = IF Response(w, id, answer) = "success"
                          THEN [@ EXCEPT ![id].idle = 0] ELSE @,
                 !.last = [op |-> "timed_operation", id |-> id,
                           value |-> Response(w, id, answer), closes |-> 0]]

\* the adapter's navigate or wait_for_element handler (the two have one
\* shape), from its lookup to its response: session = get_session(session_id),
\* then session.navigate / session.wait_for_selector with the request's
\* timeout: the awaited page operation returns, and last_activity =
\* time.time(), or raises playwright's TimeoutError, which is logged and
\* re-raised
timed_operation(w, id, answer) ==
  [w EXCEPT !.objs = IF Response(w, id, answer) = "success"
                     THEN [@ EXCEPT ![id].idle = 0] ELSE @,
            !.last = [op |-> "timed_operation", id |-> id,
                      value |-> Response(w, id, answer), closes |-> 0]]

\* the methods of BrowserPool
PoolMethods ==
  {"create_session", "get_session", "close_session",
   "_cleanup_expired_sessions", "close_all"}

\* shutdown_event: `await browser_pool.cleanup()`
ShutdownCalls == "cleanup"

\* ------------------------------------------------------------ one stretch
\* the statement at which handler t stands
Statement(w, t) ==
  LET p == w.pc[t]
  IN CASE p = "cs_cleanup" -> cleanup_scan(w, t)
       [] p = "cleanup_loop" -> cleanup_loop(w, t)
       [] p = "cs_check" -> capacity_check(w, t)
       [] p = "cs_register" -> register(w, t)
       [] p = "init_except" -> init_except(w, t)
       [] p = "cs_except" -> create_except(w, t)
       [] p = "cs_raise" -> create_raise(w, t)
       [] p = "close_run" -> close_run(w, t)
       [] p = "close_ret" -> close_return(w, t)
       [] p = "cl_pop" -> close_pop(w, t)
       [] p = "cl_true" -> close_session_return(w, t, "true")
       [] p = "cl_false" -> close_session_return(w, t, "false")
       [] p = "ca_start" -> close_all_start(w, t)
       [] p = "ca_loop" -> close_all_loop(w, t)

\* handler t runs until it is suspended again (v binds the value of w, so
\* that each statement of the stretch is evaluated once)
RECURSIVE Run(_, _)
Run(w, t) ==
  CHOOSE r \in {IF v.pc[t] \in Suspended THEN v ELSE Run(Statement(v, t), t) :
                   v \in {w}} : TRUE

\* the state in which a stretch starts
Start == [World EXCEPT !.last = NoReturn]

\* handlers are interchangeable: a new request takes the first free one
FreeHandler(t) == pc[t] = "idle" /\ \A u \in Tasks : pc[u] = "idle" => t <= u

\* the create_session calls that have not generated their identifier yet
PendingCreates ==
  {t \in Tasks : pc[t] = "cs_lock_wait" \/ (pc[t] = "cl_lock_wait" /\ ret[t] # <<>>)}

\* ------------------------------------------------------------ actions
\* (the model generates at most MaxIds identifiers)
create_session(t) ==
  /\ FreeHandler(t)
  /\ nextId + Cardinality(PendingCreates) <= MaxIds
  /\ Becomes(Run(Acquire(Start, t, "cs_cleanup", "cs_lock_wait"), t))

close_session(t, id) ==
  /\ FreeHandler(t)
  /\ Becomes(Run(Acquire([Start EXCEPT !.cur[t] = id], t, "cl_pop", "cl_lock_wait"), t))

close_all(t) ==
  /\ FreeHandler(t)
  /\ Becomes(Run(Acquire(Start, t, "ca_start", "ca_lock_wait"), t))

\* get_session is synchronous: it runs inside the stretch of its caller
GetSession(id) == Becomes(sessions_get(Start, id))

\* the adapter serves a navigate or wait_for_element request for id, an
\* identifier that a create_session call has generated
TimedOperation(id, answer) ==
  /\ id < nextId
  /\ Becomes(timed_operation(Start, id, answer))

\* the server shuts down: the shutdown hook calls the pool method it names,
\* which runs when BrowserPool has it and raises AttributeError otherwise
shutdown_event(t) ==
  /\ FreeHandler(t)
  /\ IF ShutdownCalls \in PoolMethods
     THEN Becomes(Run(Acquire(Start, t, "ca_start", "ca_lock_wait"), t))
     ELSE Becomes([Start EXCEPT !.last = [op |-> "shutdown_event", id |-> None,
                                          value |-> "AttributeError",
                                          closes |-> 0]])

\* asyncio.Lock.release has woken the first waiter: it takes the lock
LockGranted(t) ==
  /\ pc[t] \in LockWaits
  /\ ~locked
  /\ waiters # <<>> /\ Head(waiters) = t
  /\ Becomes(Run([Start EXCEPT !.locked = TRUE,
                               !.waiters = Tail(@),
                               !.holding[t] = @ + 1,
                               !.pc[t] = AfterAcquire(pc[t])], t))

\* BrowserSession.initialize: the awaited browser operation completes (ok) or
\* raises; a failure to inject stealth.min.js is logged and initialize goes on;
\* after the last one: page.on(...), last_activity = time.time(), return True
initialize(t, ok) ==
  /\ pc[t] \in InitAwaits
  /\ LET p == pc[t]
         s == cur[t]
         i == InitIndex(p)
     IN Becomes(Run(
          IF ok \/ p = "init_stealth_js"
          THEN IF i < Len(InitSteps)
               THEN [Start EXCEPT !.objs[s] = Allocated(@, p),
                                  !.pc[t] = InitSteps[i + 1]]
               ELSE [Start EXCEPT !.objs[s] = [@ EXCEPT !.hooks = TRUE, !.idle = 0,
                                                        !.initialized = TRUE],
                                  !.pc[t] = "cs_register"]
          ELSE [Start EXCEPT !.pc[t] = "init_except"], t))

\* BrowserSession.close: the awaited release completes (the field is set to
\* None) or raises (the except clause of close logs it and close returns)
close(t, ok) ==
  /\ pc[t] \in CloseAwaits
  /\ Becomes(Run(
       IF ok
       THEN [Start EXCEPT !.objs[cur[t]] = ReleasedField(@, pc[t]),
                          !.pc[t] = "close_run"]
       ELSE [Start EXCEPT !.pc[t] = "close_ret"], t))

\* time passes: every session is idle for one unit longer
Tick ==
  /\ \E s \in DOMAIN objs : objs[s].idle <= session_timeout
  /\ Becomes([Start EXCEPT !.objs =
                [s \in DOMAIN objs |->
                   [objs[s] EXCEPT !.idle = IF @ <= session_timeout THEN @ + 1 ELSE @]]])

\* ------------------------------------------------------------ specification
Call(t) ==
  \/ create_session(t)
  \/ \E id \in Ids : close_session(t, id)
  \/ close_all(t)

Resume(t) ==
  \/ LockGranted(t)
  \/ \E ok \in BOOLEAN : initialize(t, ok)
  \/ \E ok \in BOOLEAN : close(t, ok)

Next ==
  \/ Tick
  \/ \E id \in Ids : GetSession(id)
  \/ \E t \in Tasks : Call(t) \/ Resume(t)
  \/ \E t \in Tasks : shutdown_event(t)

Spec == Init /\ [][Next]_vars

\* the event loop resumes every handler whose awaited lock or browser
\* operation is ready; browser operations terminate
FairSpec == Spec /\ \A t \in Tasks : WF_vars(Resume(t))

\* the pool behind the HTTP adapter, whose handlers look sessions up to call
\* their operations
AdapterNext ==
  \/ Tick
  \/ \E id \in Ids : \E answer \in {"ok", "TimeoutError"} : TimedOperation(id, answer)
  \/ \E t \in Tasks : Call(t) \/ Resume(t)

AdapterSpec == Init /\ [][AdapterNext]_vars

\* ------------------------------------------------------------ NetworkInterceptor
\* A URL is the sequence of its path segments and a pattern a sequence of
\* segments to find in it.  url_pattern None and '' are both false in the
\* test `if self.url_pattern and ...`, the only place that reads url_pattern:
\* both are the empty pattern <<>>.
Urls == {<<"api", "x">>, <<"other">>}
Patterns == {<<>>, <<"api">>}

\* re.search(pattern, url): the pattern occurs somewhere in the url
Search(pattern, url) ==
  \E i \in 0..Len(url) :
    /\ i + Len(pattern) <= Len(url)
    /\ SubSeq(url, i + 1, i + Len(pattern)) = pattern

\* (mutant: the filter is not applied)
FilteredMutant(pattern, url) == FALSE

\* if self.url_pattern and not re.search(self.url_pattern, url): return
Filtered(pattern, url) == pattern # <<>> /\ ~Search(pattern, url)

\* the requests the page emits: a url and an HTTP method
PageRequests ==
  {[url |-> <<"api", "x">>, method |-> "POST"],
   [url |-> <<"api", "x">>, method |-> "PUT"],
   [url |-> <<"other">>, method |-> "GET"]}

\* the methods whose requests carry a body
BodyMethods == {"POST", "PUT", "PATCH"}

\* request.post_data: the body of the request the page emits, None without one
PostData(method) == IF method \in BodyMethods THEN "data" ELSE "None"

\* request_data of on_request: 'post_data': request.post_data if
\* request.method == 'POST' else None; 'response': None is the empty sequence
NewRequest(id, url, method) ==
  [request_id |-> id, url |-> url, method |-> method,
   post_data |-> IF method = "POST" THEN PostData(method) ELSE "None",
   response |-> <<>>]

\* (mutant: the scan takes the last unmatched record of the url)
FirstUnmatchedMutant(reqs, url) ==
  LET S == {i \in DOMAIN reqs : reqs[i].url = url /\ reqs[i].response = <<>>}
  IN IF S = {} THEN 0 ELSE CHOOSE i \in S : \A j \in S : j <= i

\* for req in self.requests: if req['url'] == response.url and
\* req['response'] is None: ... break  -- the position found, 0 if none
FirstUnmatched(reqs, url) ==
  LET RECURSIVE scan(_)
      scan(i) == IF i > Len(reqs) THEN 0
                 ELSE IF reqs[i].url = url /\ reqs[i].response = <<>> THEN i
                 ELSE scan(i + 1)
  IN scan(1)

\* (mutant: a body that cannot be read leaves the record unmatched)
FilledMutant(reqs, cb, ok) ==
  [i \in DOMAIN reqs |->
     IF reqs[i].request_id = cb.req /\ ok
     THEN [reqs[i] EXCEPT !.response =
             <<[response |-> cb.response, body |-> "text"]>>]
     ELSE reqs[i]]

\* req['response'] = {...}: req is the dict found by the scan, which is in
\* the list unless clear() emptied it meanwhile
Filled(reqs, cb, ok) ==
  [i \in DOMAIN reqs |->
     IF reqs[i].request_id = cb.req
     THEN [reqs[i] EXCEPT !.response =
             <<[response |-> cb.response, body |-> IF ok THEN "text" ELSE "None"]>>]
     ELSE reqs[i]]

\* (mutant: every stored record is returned)
get_requestsMutant(reqs) == reqs

\* [req for req in self.requests if req.get('response')]
get_requests(reqs) ==
  LET RECURSIVE comprehension(_)
      comprehension(i) ==
        IF i > Len(reqs) THEN <<>>
        ELSE IF reqs[i].response # <<>> THEN <<reqs[i]>> \o comprehension(i + 1)
        ELSE comprehension(i + 1)
  IN comprehension(1)

\* the page emits a request: on_request runs (it has no await)
on_request(url, method) ==
  /\ next_request_id <= MaxRequests
  /\ IF Filtered(url_pattern, url)
     THEN UNCHANGED <<requests, next_request_id>>
     ELSE /\ requests' = Append(requests, NewRequest(next_request_id, url, method))
          /\ next_request_id' = next_request_id + 1
  /\ event' = [NoEvent EXCEPT !.op = "on_request", !.url = url]
  /\ UNCHANGED <<url_pattern, inflight, next_response, dropped>>
  /\ UNCHANGED <<poolvars, sessionvars, clientvars>>

\* the stored record that loses its response when a response for url arrives:
\* the first unmatched record of the url that no callback has found, when
\* the filter makes on_response return (was: the record that lost one before)
Dropped(reqs, callbacks, pattern, url, was) ==
  LET i == FirstUnmatched(reqs, url)
  IN IF /\ Filtered(pattern, url)
        /\ i # 0
        /\ \A cb \in callbacks : cb.req # reqs[i].request_id
     THEN reqs[i].request_id
     ELSE was

\* (mutant: on_response does not apply the filter)
on_response_NoFilter(url) ==
  /\ next_response <= MaxResponses
  /\ next_response' = next_response + 1
  /\ LET i == FirstUnmatched(requests, url)
     IN IF i = 0
        THEN UNCHANGED inflight
        ELSE inflight' = inflight \cup
               {[response |-> next_response, url |-> url, req |-> requests[i].request_id]}
  /\ dropped' = Dropped(requests, inflight, url_pattern, url, dropped)
  /\ event' = [NoEvent EXCEPT !.op = "on_response", !.url = url]
  /\ UNCHANGED <<requests, url_pattern, next_request_id>>
  /\ UNCHANGED <<poolvars, sessionvars, clientvars>>

\* the page emits a response: on_response runs up to `await response.body()`
on_response(url) ==
  /\ next_response <= MaxResponses
  /\ next_response' = next_response + 1
  /\ LET i == FirstUnmatched(requests, url)
     IN IF Filtered(url_pattern, url) \/ i = 0
        THEN UNCHANGED inflight
        ELSE inflight' = inflight \cup
               {[response |-> next_response, url |-> url, req |-> requests[i].request_id]}
  /\ dropped' = Dropped(requests, inflight, url_pattern, url, dropped)
  /\ event' = [NoEvent EXCEPT !.op = "on_response", !.url = url]
  /\ UNCHANGED <<requests, url_pattern, next_request_id>>
  /\ UNCHANGED <<poolvars, sessionvars, clientvars>>

\* response.body() returns (ok) or raises: the record found gets its response
response_body(cb, ok) ==
  /\ cb \in inflight
  /\ requests' = Filled(requests, cb, ok)
  /\ inflight' = inflight \ {cb}
  /\ event' = [NoEvent EXCEPT !.op = "response_body", !.url = cb.url]
  /\ UNCHANGED <<url_pattern, next_request_id, next_response, dropped>>
  /\ UNCHANGED <<poolvars, sessionvars, clientvars>>

set_url_pattern(pattern) ==
  /\ url_pattern' = pattern
  /\ event' = [NoEvent EXCEPT !.op = "set_url_pattern", !.pattern = pattern]
  /\ UNCHANGED <<requests, inflight, next_request_id, next_response, dropped>>
  /\ UNCHANGED <<poolvars, sessionvars, clientvars>>

\* (mutant: clear keeps the records whose response has arrived)
clear_KeepsMatched ==
  /\ dropped' = None
  /\ requests' = get_requests(requests)
  /\ event' = [NoEvent EXCEPT !.op = "clear"]
  /\ UNCHANGED <<url_pattern, inflight, next_request_id, next_response>>
  /\ UNCHANGED <<poolvars, sessionvars, clientvars>>

\* self.requests.clear()
clear ==
  /\ dropped' = None
  /\ requests' = <<>>
  /\ event' = [NoEvent EXCEPT !.op = "clear"]
  /\ UNCHANGED <<url_pattern, inflight, next_request_id, next_response>>
  /\ UNCHANGED <<poolvars, sessionvars, clientvars>>

\* a call of NetworkInterceptor.get_requests
GetRequests ==
  /\ event' = [NoEvent EXCEPT !.op = "get_requests", !.result = get_requests(requests)]
  /\ UNCHANGED <<requests, url_pattern, inflight, next_request_id, next_response, dropped>>
  /\ UNCHANGED <<poolvars, sessionvars, clientvars>>

\* (mutant: a call without pattern takes the filter away)
get_network_requests_Resets(pattern) ==
  /\ url_pattern' = pattern
  /\ event' = [NoEvent EXCEPT !.op = "get_network_requests", !.pattern = pattern,
                               !.result = get_requests(requests)]
  /\ UNCHANGED <<requests, inflight, next_request_id, next_response, dropped>>
  /\ UNCHANGED <<poolvars, sessionvars, clientvars>>

\* BrowserSession.get_network_requests(url_pattern); None and '' are <<>>
get_network_requests(pattern) ==
  /\ url_pattern' = IF pattern # <<>> THEN pattern ELSE url_pattern
  /\ event' = [NoEvent EXCEPT !.op = "get_network_requests", !.pattern = pattern,
                               !.result = get_requests(requests)]
  /\ UNCHANGED <<requests, inflight, next_request_id, next_response, dropped>>
  /\ UNCHANGED <<poolvars, sessionvars, clientvars>>

InterceptorNext ==
  \/ \E request \in PageRequests : on_request(request.url, request.method)
  \/ \E url \in Urls : on_response(url)
  \/ \E cb \in inflight, ok \in BOOLEAN : response_body(cb, ok)
  \/ \E pattern \in Patterns : set_url_pattern(pattern)
  \/ clear
  \/ GetRequests
  \/ \E pattern \in Patterns : get_network_requests(pattern)

\* one interceptor and the events of its page
InterceptorSpec == Init /\ [][InterceptorNext]_vars

\* ------------------------------------------------------------ BrowserSession
\* One BrowserSession object and one caller, whose calls follow one another.
Operations ==
  {"navigate", "execute_script", "get_content", "wait_for_selector", "click",
   "type_text", "screenshot", "set_extra_headers", "set_cookies", "get_cookies"}

HeaderKeys == {"a", "b"}
HeaderValues == {"1", "2"}

\* the dicts a caller may pass
HeaderMaps == UNION {[K -> HeaderValues] : K \in SUBSET HeaderKeys}

\* the attribute an operation tests first: self.context or self.page
Requires(op) ==
  IF op \in {"set_extra_headers", "set_cookies", "get_cookies"} THEN "context"
  ELSE "page"

\* (mutant: the test is missing)
UsableMutant(sess, op) == TRUE

\* not (`if not self.page:` / `if not self.context:`)
Usable(sess, op) == sess[Requires(op)]

\* (mutant: the headers of the call replace the accumulated ones)
MergeMutant(d, h) == h

\* dict.update: d with the items of h, h winning on an equal key
Merge(d, h) ==
  [k \in (DOMAIN d) \cup (DOMAIN h) |-> IF k \in DOMAIN h THEN h[k] ELSE d[k]]

\* the state of the caller when its call has ended with value
Ended(op, value) ==
  /\ where' = "idle"
  /\ op_running' = "none"
  /\ close_from' = "none"
  /\ UNCHANGED argument
  /\ outcome' = [op |-> op, value |-> value]

\* screenshot(selector=None, full_page=False): no selector, or one
Selectors ==
  {[full_page |-> b] : b \in BOOLEAN}
    \cup {[selector |-> "css", full_page |-> b] : b \in BOOLEAN}

\* (mutant: full_page is not passed on)
ShotMutant(headers) == "viewport"

\* self.page.screenshot(full_page=full_page)
Shot(headers) == IF headers.full_page THEN "full_page" ELSE "viewport"

\* the headers or the selector a call of op may be given
Arguments(op) ==
  IF op = "set_extra_headers" THEN HeaderMaps
  ELSE IF op = "screenshot" THEN Selectors
  ELSE {<<>>}

\* (mutant: the element is looked up whether or not a selector is given)
FirstAwaitMutant(op, headers) ==
  IF op = "screenshot" THEN "query_selector" ELSE "capability"

\* the first await of an operation: screenshot with a selector awaits
\* page.query_selector first, every other call its one capability operation
FirstAwait(op, headers) ==
  IF op = "screenshot" /\ "selector" \in DOMAIN headers THEN "query_selector"
  ELSE "capability"

\* a call of one of the ten operations, up to its first await of the capability
call_operation(op, headers) ==
  /\ where = "idle"
  /\ IF ~Usable(session, op)
     THEN /\ Ended(op, "RuntimeError")
          /\ invocations' = 0
          /\ shot' = "none"
          /\ UNCHANGED <<custom_headers, handed>>
     ELSE /\ where' = FirstAwait(op, headers)
          /\ invocations' = 1
          /\ shot' = IF op = "screenshot" /\ FirstAwait(op, headers) = "capability"
                     THEN Shot(headers) ELSE "none"
          /\ op_running' = op
          /\ argument' = headers
          /\ outcome' = NoOutcome
          /\ IF op = "set_extra_headers"
             THEN /\ custom_headers' = Merge(custom_headers, headers)
                  /\ handed' = custom_headers'
             ELSE UNCHANGED <<custom_headers, handed>>
          /\ UNCHANGED close_from
  /\ UNCHANGED <<session, called, attempted>>
  /\ UNCHANGED <<poolvars, interceptorvars, clientvars>>

\* the caller calls the operation on the session object
operation(op, headers) ==
  /\ call_operation(op, headers)
  /\ via' = "none"

\* the handlers of the HTTP server that work on a session
Endpoints ==
  {"navigate", "execute_script", "get_page_content", "get_network_requests",
   "wait_for_element", "click_element", "type_text", "take_screenshot",
   "set_headers", "set_cookies", "get_cookies"}

\* the attribute of the session that each handler calls
Calls(e) ==
  CASE e = "navigate" -> "navigate"
    [] e = "execute_script" -> "execute_script"
    [] e = "get_page_content" -> "get_content"
    [] e = "get_network_requests" -> "get_network_requests"
    [] e = "wait_for_element" -> "wait_for_selector"
    [] e = "click_element" -> "click"
    [] e = "type_text" -> "type_text"
    [] e = "take_screenshot" -> "take_screenshot"
    [] e = "set_headers" -> "set_extra_http_headers"
    [] e = "set_cookies" -> "set_cookies"
    [] e = "get_cookies" -> "get_cookies"

\* the methods of BrowserSession
SessionMethods ==
  Operations \cup {"initialize", "close", "get_network_requests",
                   "clear_network_requests"}

\* the operation of BrowserSession that does the work of each handler
Corresponding(e) ==
  CASE e = "take_screenshot" -> "screenshot"
    [] e = "set_headers" -> "set_extra_headers"
    [] OTHER -> Calls(e)

\* what a handler answers when its call of the session ended with value: the
\* success response, or HTTPException(500) from `except Exception`
\* (execute_script answers success=False instead)
HttpResponse(e, value) ==
  IF value = "ok" THEN "success"
  ELSE IF e = "execute_script" THEN "success=False"
  ELSE "500"

\* a handler of the HTTP server has looked the session up in the pool (where
\* it is registered: initialized and not closed) and calls its attribute: an
\* operation runs up to its first await, get_network_requests returns at
\* once, and a name BrowserSession does not have raises AttributeError
endpoint(e, headers) ==
  /\ where = "idle"
  /\ session.initialized
  /\ "close" \notin called
  /\ via' = e
  /\ IF Calls(e) \in Operations
     THEN call_operation(Calls(e), headers)
     ELSE /\ Ended(Calls(e), IF Calls(e) \in SessionMethods THEN "ok"
                             ELSE "AttributeError")
          /\ invocations' = 0
          /\ UNCHANGED <<session, custom_headers, handed, called, attempted>>
          /\ UNCHANGED shot
          /\ UNCHANGED <<poolvars, interceptorvars, clientvars>>

\* screenshot with a selector: page.query_selector answers with the element
\* (then `await element.screenshot()`), with None (`raise ValueError`, which
\* the except clause logs and re-raises), or raises
query_selector(answer) ==
  /\ where = "query_selector"
  /\ IF answer = "element"
     THEN /\ where' = "capability"
          /\ shot' = "element"
          /\ invocations' = invocations + 1
          /\ outcome' = NoOutcome
          /\ UNCHANGED <<op_running, argument, close_from>>
     ELSE /\ Ended(op_running, IF answer = "None" THEN "ValueError"
                                ELSE "CapabilityFailure")
          /\ UNCHANGED <<invocations, shot>>
  /\ UNCHANGED <<session, custom_headers, handed, called, attempted, via>>
  /\ UNCHANGED <<poolvars, interceptorvars, clientvars>>

\* (mutant: a failed set_extra_headers takes the headers of the call back)
capability_Rollback(ok) ==
  /\ where = "capability"
  /\ IF ok
     THEN /\ session' = [session EXCEPT !.idle = 0]
          /\ Ended(op_running, "ok")
          /\ UNCHANGED custom_headers
     ELSE /\ Ended(op_running, "CapabilityFailure")
          /\ custom_headers' =
               IF op_running = "set_extra_headers"
               THEN [k \in (DOMAIN custom_headers) \ (DOMAIN argument) |-> custom_headers[k]]
               ELSE custom_headers
          /\ UNCHANGED session
  /\ UNCHANGED <<handed, called, invocations, attempted, via>>
  /\ UNCHANGED shot
  /\ UNCHANGED <<poolvars, interceptorvars, clientvars>>

\* the capability answers: last_activity = time.time() and return, or the
\* except clause logs and re-raises
capability(ok) ==
  /\ where = "capability"
  /\ IF ok
     THEN /\ session' = [session EXCEPT !.idle = 0]
          /\ Ended(op_running, "ok")
     ELSE /\ Ended(op_running, "CapabilityFailure")
          /\ UNCHANGED session
  /\ UNCHANGED <<custom_headers, handed, called, invocations, attempted, via>>
  /\ UNCHANGED shot
  /\ UNCHANGED <<poolvars, interceptorvars, clientvars>>

\* close runs on sess for the caller named from, having awaited the releases
\* tried: up to the await of the next release, or to its end when nothing is set
RunClose(sess, from, tried) ==
  IF NextRelease(sess) \in CloseAwaits
  THEN /\ where' = NextRelease(sess)
       /\ close_from' = from
       /\ attempted' = tried \cup {NextRelease(sess)}
       /\ outcome' = NoOutcome
       /\ UNCHANGED <<op_running, argument>>
  ELSE /\ attempted' = tried
       /\ IF from = "initialize" THEN Ended("initialize", "raised")
          ELSE Ended("close", "None")

\* the caller calls initialize on the new session
session_initialize ==
  /\ where = "idle"
  /\ called = {}
  /\ called' = {"initialize"}
  /\ via' = "none"
  /\ where' = InitSteps[1]
  /\ outcome' = NoOutcome
  /\ UNCHANGED <<session, custom_headers, handed, argument, op_running,
                 close_from, invocations, attempted>>
  /\ UNCHANGED shot
  /\ UNCHANGED <<poolvars, interceptorvars, clientvars>>

\* an awaited browser operation of initialize completes or raises (as in the
\* pool's initialize); on a failure the except clause calls self.close()
session_initialize_step(ok) ==
  /\ where \in InitAwaits
  /\ IF ok \/ where = "init_stealth_js"
     THEN IF InitIndex(where) < Len(InitSteps)
          THEN /\ session' = Allocated(session, where)
               /\ where' = InitSteps[InitIndex(where) + 1]
               /\ outcome' = NoOutcome
               /\ UNCHANGED <<op_running, argument, close_from, attempted>>
          ELSE /\ session' = [session EXCEPT !.hooks = TRUE, !.idle = 0,
                                              !.initialized = TRUE]
               /\ Ended("initialize", "True")
               /\ UNCHANGED attempted
     ELSE /\ session' = [session EXCEPT !.closeCalls = @ + 1]
          /\ RunClose(session, "initialize", {})
  /\ UNCHANGED <<custom_headers, handed, called, invocations, via>>
  /\ UNCHANGED shot
  /\ UNCHANGED <<poolvars, interceptorvars, clientvars>>

\* the caller calls close
session_close ==
  /\ where = "idle"
  /\ "close" \notin called
  /\ called' = called \cup {"close"}
  /\ via' = "none"
  /\ session' = [session EXCEPT !.closeCalls = @ + 1]
  /\ RunClose(session, "close", {})
  /\ UNCHANGED <<custom_headers, handed, invocations>>
  /\ UNCHANGED shot
  /\ UNCHANGED <<poolvars, interceptorvars, clientvars>>

\* an awaited release of close completes (the attribute becomes None and
\* close goes on) or raises (close logs it and returns)
session_release(ok) ==
  /\ where \in CloseAwaits
  /\ IF ok
     THEN /\ session' = ReleasedField(session, where)
          /\ RunClose(ReleasedField(session, where), close_from, attempted)
     ELSE /\ UNCHANGED <<session, attempted>>
          /\ IF close_from = "initialize" THEN Ended("initialize", "raised")
             ELSE Ended("close", "None")
  /\ UNCHANGED <<custom_headers, handed, called, invocations, via>>
  /\ UNCHANGED shot
  /\ UNCHANGED <<poolvars, interceptorvars, clientvars>>

\* time passes for the session
SessionTick ==
  /\ session.idle <= session_timeout
  /\ session' = [session EXCEPT !.idle = @ + 1]
  /\ outcome' = NoOutcome
  /\ UNCHANGED <<custom_headers, handed, argument, called, where, op_running,
                 close_from, invocations, attempted, via>>
  /\ UNCHANGED shot
  /\ UNCHANGED <<poolvars, interceptorvars, clientvars>>

SessionNext ==
  \/ \E op \in Operations : \E headers \in Arguments(op) : operation(op, headers)
  \/ \E e \in Endpoints : \E headers \in Arguments(Corresponding(e)) :
       endpoint(e, headers)
  \/ \E answer \in {"element", "None", "raises"} : query_selector(answer)
  \/ \E ok \in BOOLEAN : capability(ok)
  \/ session_initialize
  \/ \E ok \in BOOLEAN : session_initialize_step(ok)
  \/ session_close
  \/ \E ok \in BOOLEAN : session_release(ok)
  \/ SessionTick

\* one session object and its caller
SessionSpec == Init /\ [][SessionNext]_vars

\* ------------------------------------------------------------ BrowserHTTPClient
\* One BrowserHTTPClient object and one caller, whose calls follow one
\* another; the server is what answers the requests.
ClientOperations ==
  {"navigate", "execute_script", "get_page_content", "get_network_requests",
   "wait_for_element", "click_element", "type_text", "take_screenshot",
   "set_headers", "set_cookies", "get_cookies"}

\* what the server may answer: 200 with success true or false, or an error
\* status
Answers == {"success", "failure", "404", "500"}

\* (mutant: the test is missing)
HoldsSessionMutant(id) == TRUE

\* not (`if not self.session_id:`)
HoldsSession(id) == id # None

\* the caller's call has ended with value; sent: it had sent a request
ClientEnded(op, value, sent) ==
  /\ client_where' = "idle"
  /\ client_op' = "none"
  /\ client_outcome' = [op |-> op, value |-> value, sent |-> sent]

\* the call sends its request and awaits the response
ClientSends(op) ==
  /\ client_where' = "awaiting"
  /\ client_op' = op
  /\ client_outcome' = NoClientOutcome

\* create_session: no test of session_id, the request is sent
client_create_session ==
  /\ client_where = "idle"
  /\ ClientSends("create_session")
  /\ UNCHANGED <<client_session_id, client_created>>
  /\ UNCHANGED <<poolvars, interceptorvars, sessionvars>>

\* close_session: `if not self.session_id: return False`, else the request
client_close_session ==
  /\ client_where = "idle"
  /\ IF HoldsSession(client_session_id)
     THEN ClientSends("close_session")
     ELSE ClientEnded("close_session", "False", FALSE)
  /\ UNCHANGED <<client_session_id, client_created>>
  /\ UNCHANGED <<poolvars, interceptorvars, sessionvars>>

\* one of the eleven session operations: `if not self.session_id: raise
\* RuntimeError`, else the request
client_operation(op) ==
  /\ client_where = "idle"
  /\ IF HoldsSession(client_session_id)
     THEN ClientSends(op)
     ELSE ClientEnded(op, "RuntimeError", FALSE)
  /\ UNCHANGED <<client_session_id, client_created>>
  /\ UNCHANGED <<poolvars, interceptorvars, sessionvars>>

\* the response arrives: raise_for_status raises HTTPStatusError on an error
\* status; create_session stores result["session_id"]; close_session clears
\* session_id on success and on 404 (returning False) and re-raises another
\* status; success false is RuntimeError (False from close_session)
client_response(answer, id) ==
  /\ client_where = "awaiting"
  /\ CASE client_op = "create_session" ->
            /\ client_session_id' = IF answer = "success" THEN id
                                    ELSE client_session_id
            /\ client_created' = (client_created \/ answer = "success")
            /\ ClientEnded(client_op,
                           CASE answer = "success" -> "session_id"
                             [] answer = "failure" -> "RuntimeError"
                             [] OTHER -> "HTTPStatusError", TRUE)
       [] client_op = "close_session" ->
            /\ client_session_id' = IF answer \in {"success", "404"} THEN None
                                    ELSE client_session_id
            /\ UNCHANGED client_created
            /\ ClientEnded(client_op,
                           CASE answer = "success" -> "True"
                             [] answer = "500" -> "HTTPStatusError"
                             [] OTHER -> "False", TRUE)
       [] OTHER ->
            /\ UNCHANGED <<client_session_id, client_created>>
            /\ ClientEnded(client_op,
                           CASE answer = "success" -> "ok"
                             [] answer = "failure" -> "RuntimeError"
                             [] OTHER -> "HTTPStatusError", TRUE)
  /\ UNCHANGED <<poolvars, interceptorvars, sessionvars>>

ClientNext ==
  \/ client_create_session
  \/ client_close_session
  \/ \E op \in ClientOperations : client_operation(op)
  \/ \E answer \in Answers : \E id \in Ids : client_response(answer, id)

\* one client object and its caller
ClientSpec == Init /\ [][ClientNext]_vars

\* ------------------------------------------------------------ claims
\* a create_session call of handler t takes the lock in this step
CreateTakesLock(t) ==
  \/ pc[t] = "idle" /\ CanAcquire(locked, waiters) /\ create_session(t)
  \/ pc[t] = "cs_lock_wait" /\ LockGranted(t)

\* handler t is inside create_session, past the generation of the identifier
Creating(t) ==
  \/ pc[t] \in InitAwaits
  \/ pc[t] \in CloseAwaits /\ ret[t] # <<>>
       /\ ret[t][Len(ret[t])] \in {"init_except", "cs_except"}

\* the identifier was generated and is neither registered nor being initialized
Gone(id) ==
  /\ id < nextId
  /\ id \notin sessions
  /\ \A t \in Tasks : ~(cur[t] = id /\ pc[t] \in InitAwaits)

\* C1: in every reachable state the number of registered sessions is at most
\* max_sessions, whatever the interleaving of create_session, close_session
\* and close_all calls.
C1_PoolBounded == Cardinality(sessions) <= max_sessions

C1_Witness ==
  /\ Cardinality(sessions) = max_sessions
  /\ \E t \in Tasks : pc[t] = "cs_lock_wait"

\* C2 (as claimed): once the sweep of a create_session call has found a
\* registered session expired, that session is eventually removed from the
\* mapping (and the call goes on to its capacity check).
C2_ExpiredEvicted ==
  \A s \in Ids :
    (s \in sessions /\ \E t \in Tasks : cur[t] = s /\ Top(ret[t]) = "cleanup")
      ~> (s \notin sessions)

\* C3 (as claimed): no handler waits for the pool lock while it is itself
\* inside an `async with self._lock` block: the sweep never waits for the lock.
C3_SweepNeverWaitsForLock ==
  \A t \in Tasks : ~(pc[t] \in LockWaits /\ holding[t] > 0)

\* C4: close_session(id) returns false only when id is not registered, and
\* then changes neither the mapping nor any session; it starts a teardown only
\* for a registered id, which it removes; when it returns true the id is
\* unregistered and its session was torn down once; an id that was
\* unregistered stays so, so that every later call returns false.
C4_CloseSessionIdempotent ==
  [][/\ (last'.op = "close_session" /\ last'.value = "false") =>
          /\ last'.id \notin sessions
          /\ sessions' = sessions
          /\ objs' = objs
          /\ last'.closes = 0
     /\ (last'.op = "close_session" /\ last'.value = "true") =>
          /\ last'.id \notin sessions'
          /\ last'.closes = 1
     /\ \A t \in Tasks :
          (/\ pc'[t] \in CloseAwaits
           /\ Top(ret'[t]) = "close_session"
           /\ pc[t] \notin CloseAwaits) =>
             (cur'[t] \in sessions /\ cur'[t] \notin sessions')
     /\ \A id \in Ids : Gone(id) => Gone(id)'
    ]_vars

C4_Witness ==
  /\ last.op = "close_session"
  /\ last.value = "false"
  /\ last.id < nextId

\* C5: a create_session call that takes the lock while no registered session
\* is expired fails with the pool-exhausted error when max_sessions sessions
\* are registered, constructing no session and leaving the mapping unchanged;
\* with fewer registered it constructs a session under a fresh identifier,
\* and a successful call registers exactly that new identifier.
C5_ExhaustedThenRoom ==
  [][/\ \A t \in Tasks :
          (CreateTakesLock(t) /\ ExpiredIds(World) = {}) =>
             IF Cardinality(sessions) >= max_sessions
             THEN /\ last'.op = "create_session"
                  /\ last'.value = "PoolExhausted"
                  /\ sessions' = sessions
                  /\ objs' = objs
                  /\ nextId' = nextId
                  /\ pc'[t] = "idle"
                  /\ ~locked'
             ELSE /\ pc'[t] = "init_playwright"
                  /\ cur'[t] = nextId
                  /\ nextId' = nextId + 1
                  /\ sessions' = sessions
                  /\ last'.op = "none"
     /\ (last'.op = "create_session" /\ last'.value = "created") =>
          /\ last'.id \notin sessions
          /\ sessions' = sessions \cup {last'.id}
    ]_vars

C5_Witness ==
  /\ last.op = "create_session"
  /\ last.value = "PoolExhausted"
  /\ Cardinality(sessions) = max_sessions

\* C6: a failure of initialize inside create_session reaches the caller as an
\* error; the generated id is in the mapping in no state of the call, the
\* mapping stays what it was when the call took the lock, and the lock is
\* free when the error has been raised.
C6_InitFailureLeavesNoTrace ==
  /\ [](\A t \in Tasks : Creating(t) => (cur[t] \notin sessions /\ sessions = snap[t]))
  /\ [][\A t \in Tasks :
          /\ (pc[t] \in InitAwaits \ {"init_stealth_js"} /\ initialize(t, FALSE)) =>
                \/ Creating(t)' /\ pc'[t] \in CloseAwaits
                \/ last' = [op |-> "create_session", id |-> cur[t],
                            value |-> "InitFailed", closes |-> last'.closes]
          /\ (Creating(t) /\ pc[t] \in CloseAwaits /\ ~Creating(t)') =>
                /\ last'.op = "create_session"
                /\ last'.value = "InitFailed"
                /\ last'.id = cur[t]
          /\ (Creating(t) /\ last'.value = "InitFailed" /\ last'.id = cur[t]) =>
                /\ sessions' = sessions
                /\ sessions' = snap[t]
                /\ cur[t] \notin sessions'
                /\ ~locked'
                /\ holding'[t] = 0
                /\ pc'[t] = "idle"
       ]_vars

C6_Witness ==
  /\ last.op = "create_session"
  /\ last.value = "InitFailed"
  /\ last.id \notin sessions
  /\ ~locked

\* C7: whenever get_session(id) returns a session, initialize has returned
\* True on it (its hooks are registered); a session that is being initialized
\* is not in the mapping.
C7_VisibleOnlyInitialized ==
  \A id \in Ids :
    get_session(id) # None =>
      id \in DOMAIN objs /\ objs[id].initialized /\ objs[id].hooks

C7_Witness ==
  \E t \in Tasks :
    /\ pc[t] \in InitAwaits
    /\ objs[cur[t]].page
    /\ get_session(cur[t]) = None

\* C8 (as claimed): BrowserSession.close is invoked at most once on any
\* session object.
C8_ClosedAtMostOnce ==
  /\ last.closes <= 1
  /\ \A id \in DOMAIN objs : objs[id].closeCalls <= 1

\* C9 (as claimed): no id resolves through the mapping once the teardown of
\* its session has started.
C9_VisibleOnlyLive ==
  \A id \in Ids : get_session(id) # None => objs[id].closeCalls = 0

\* C10: at most one handler is inside an `async with self._lock` block, it is
\* inside one such block only, and the lock is locked exactly then.
C10_MutualExclusion ==
  /\ \A t \in Tasks : holding[t] <= 1
  /\ \A t, u \in Tasks : (holding[t] > 0 /\ holding[u] > 0) => t = u
  /\ locked <=> \E t \in Tasks : holding[t] > 0

C10_Witness ==
  \E t, u \in Tasks :
    /\ t # u
    /\ holding[t] = 1
    /\ pc[t] \in InitAwaits \cup CloseAwaits
    /\ pc[u] \in LockWaits

\* C11 (as claimed): no handler is suspended in a browser operation (an await
\* of initialize or of close) while it is inside an `async with self._lock`
\* block.
C11_NoAwaitUnderLock ==
  \A t \in Tasks : pc[t] \in InitAwaits \cup CloseAwaits => holding[t] = 0

\* C12: a get_session(id) lookup leaves the mapping, every session (its
\* last_activity included), the lock and its queue, and every handler where
\* they were (no sweep starts), and it returns a session exactly when id is
\* registered.
C12_GetSessionFrame ==
  [][last'.op = "get_session" =>
       /\ sessions' = sessions
       /\ objs' = objs
       /\ locked' = locked
       /\ waiters' = waiters
       /\ holding' = holding
       /\ pc' = pc
       /\ expired_sessions' = expired_sessions
       /\ (last'.value = "session") <=> (last'.id \in sessions)
       /\ (last'.value = "None") <=> (last'.id \notin sessions)
    ]_vars

C12_Witness ==
  /\ last.op = "get_session"
  /\ last.value = "session"
  /\ IsExpired(objs[last.id].idle)
  /\ ~locked

\* C13: while close_all closes the sessions the mapping stays what it was
\* when close_all took the lock; when close_all returns the mapping is empty
\* and close has been invoked on every session of that mapping.
C13_CloseAllEmpties ==
  /\ [](\A t \in Tasks :
          (pc[t] \in CloseAwaits /\ Top(ret[t]) = "close_all") => sessions = snap[t])
  /\ [][last'.op = "close_all" =>
          /\ sessions' = {}
          /\ \A t \in Tasks :
               (pc[t] \in CloseAwaits /\ Top(ret[t]) = "close_all" /\ pc'[t] = "idle") =>
                  \A id \in snap[t] : id \in DOMAIN objs /\ objs[id].closeCalls >= 1
          /\ (\A t \in Tasks : ~(pc[t] \in CloseAwaits /\ Top(ret[t]) = "close_all"))
                => sessions = {}
       ]_vars

C13_Witness ==
  /\ last.op = "close_all"
  /\ last.closes >= 1
  /\ sessions = {}
  /\ ~locked

\* every stored record's url passes the pattern
AllMatch(reqs, pattern) == \A i \in DOMAIN reqs : Search(pattern, reqs[i].url)

\* C14: what a get_requests call returns holds only records whose response
\* slot is populated, holds every stored record whose slot is populated, and
\* holds them once each in the order of their insertion; the call changes
\* nothing.
C14_GetRequestsCompleted ==
  event.op \in {"get_requests", "get_network_requests"} =>
    LET G == event.result
    IN /\ \A i \in DOMAIN G :
            /\ G[i].response # <<>>
            /\ \E j \in DOMAIN requests : requests[j] = G[i]
       /\ \A j \in DOMAIN requests :
            requests[j].response # <<>> => \E i \in DOMAIN G : G[i] = requests[j]
       /\ \A i, k \in DOMAIN G :
            i < k => \E j, l \in DOMAIN requests :
                       j < l /\ requests[j] = G[i] /\ requests[l] = G[k]

C14_Witness ==
  /\ event.op = "get_requests"
  /\ Len(event.result) = 2
  /\ Len(requests) = 3
  /\ requests[2].response = <<>>

\* C15: an on_response callback that starts while no other is in flight
\* takes the first stored record of its url whose response slot is empty, and
\* when it completes, still alone, that record holds its response and no
\* earlier record of the url is empty; so of two requests to one url the
\* earlier gets the first response and the later the second.
C15_FirstUnmatchedFirst ==
  [][/\ \A cb \in inflight' :
          inflight = {} =>
            \E i \in DOMAIN requests :
              /\ requests[i].request_id = cb.req
              /\ requests[i].url = cb.url
              /\ requests[i].response = <<>>
              /\ \A j \in 1..(i - 1) :
                   requests[j].url = cb.url => requests[j].response # <<>>
     /\ \A cb \in inflight :
          (inflight = {cb} /\ inflight' = {}) =>
            \A i \in DOMAIN requests :
              requests[i].request_id = cb.req =>
                /\ requests'[i].response # <<>>
                /\ requests'[i].response[1].response = cb.response
                /\ \A j \in 1..(i - 1) :
                     requests[j].url = cb.url => requests[j].response # <<>>
    ]_vars

C15_Witness ==
  /\ inflight = {}
  /\ Len(requests) >= 2
  /\ requests[1].url = requests[2].url
  /\ requests[1].response # <<>> /\ requests[2].response # <<>>
  /\ requests[1].response[1].response = 1
  /\ requests[2].response[1].response = 2

\* C16 (as claimed): response events fill distinct records: two on_response
\* callbacks in flight for a url of which two stored records are unmatched
\* have found different records, so that neither overwrites the other's
\* response.
C16_DistinctRecords ==
  \A a, b \in inflight :
    (/\ a # b
     /\ a.url = b.url
     /\ \E i, j \in DOMAIN requests :
          /\ i # j
          /\ requests[i].url = a.url /\ requests[i].response = <<>>
          /\ requests[j].url = a.url /\ requests[j].response = <<>>) =>
       a.req # b.req

\* C17: while a filter is set, on_request stores no request whose url does
\* not match it; and as long as the filter stays the same, a store whose
\* records all match it keeps holding only matching records, so that
\* get_requests returns only such records.
C17_FilterKeepsOut ==
  [][/\ (event'.op = "on_request" /\ Filtered(url_pattern, event'.url)) =>
          requests' = requests
     /\ (url_pattern # <<>> /\ url_pattern' = url_pattern
          /\ AllMatch(requests, url_pattern)) =>
          /\ AllMatch(requests', url_pattern)
          /\ AllMatch(get_requests(requests'), url_pattern)
    ]_vars

C17_Witness ==
  /\ event.op = "on_request"
  /\ Filtered(url_pattern, event.url)
  /\ get_requests(requests) # <<>>
  /\ AllMatch(requests, url_pattern)

\* C18 (as claimed): get_network_requests called with a pattern returns only
\* records whose url matches the pattern.
C18_PatternFiltersResult ==
  (event.op = "get_network_requests" /\ event.pattern # <<>>) =>
    AllMatch(event.result, event.pattern)

\* C19: a set_extra_headers call that passes the test leaves the accumulated
\* mapping with the keys it had and the keys of the call, the call's value on
\* each key of the call and the earlier value on every other key, and hands
\* the capability that whole mapping; nothing else changes the accumulated
\* mapping, so that after a sequence of calls it is their left-to-right merge.
C19_HeadersAccumulate ==
  [][/\ (where = "idle" /\ op_running' = "set_extra_headers") =>
          /\ DOMAIN custom_headers' = (DOMAIN custom_headers) \cup (DOMAIN argument')
          /\ \A k \in DOMAIN argument' : custom_headers'[k] = argument'[k]
          /\ \A k \in (DOMAIN custom_headers) \ (DOMAIN argument') :
               custom_headers'[k] = custom_headers[k]
          /\ handed' = custom_headers'
     /\ (custom_headers' # custom_headers \/ handed' # handed) =>
          (where = "idle" /\ op_running' = "set_extra_headers")
    ]_vars

C19_Witness ==
  /\ outcome = [op |-> "set_extra_headers", value |-> "ok"]
  /\ DOMAIN argument = {"b"}
  /\ DOMAIN custom_headers = HeaderKeys
  /\ handed = custom_headers

\* C20: on a session on which initialize was never called, a call of any of
\* the ten operations raises the uninitialized-session error at once: it
\* reaches no await of the capability and changes neither last_activity nor
\* the accumulated headers nor anything else of the session.
C20_UninitializedRaises ==
  [][\A op \in Operations :
       (/\ "initialize" \notin called
        /\ \E headers \in Arguments(op) : operation(op, headers)) =>
          /\ outcome' = [op |-> op, value |-> "RuntimeError"]
          /\ where' = "idle"
          /\ op_running' = "none"
          /\ session' = session
          /\ custom_headers' = custom_headers
          /\ handed' = handed
    ]_vars

C20_Witness ==
  /\ outcome = [op |-> "set_extra_headers", value |-> "RuntimeError"]
  /\ "initialize" \notin called
  /\ session.idle > 0
  /\ ~session.initialized


\* the awaits of an operation call on the capability
CapabilityAwaits == {"capability", "query_selector"}

\* the call in progress is screenshot with a selector
WithSelector == op_running = "screenshot" /\ "selector" \in DOMAIN argument

\* C21 (as amended): a session operation awaits each of its capability
\* operations once and never again (no retry): one operation per call, except
\* that screenshot with a selector awaits page.query_selector and then the
\* element's screenshot; when the call succeeds last_activity is advanced and
\* nothing else of the session changes, and when a capability operation fails
\* the call ends at once with that failure and the session, last_activity
\* included, is left as it was.
C21_NoRetry ==
  [][/\ (where = "idle" /\ where' \in CapabilityAwaits) => invocations' = 1
     /\ (where \in CapabilityAwaits /\ where' # where) =>
          IF where' # "idle"
          THEN /\ where = "query_selector" /\ where' = "capability"
               /\ WithSelector
               /\ invocations = 1 /\ invocations' = 2
               /\ session' = session
          ELSE /\ invocations' = invocations
               /\ invocations = (IF WithSelector /\ where = "capability"
                                 THEN 2 ELSE 1)
               /\ outcome'.op = op_running
               /\ outcome'.value \in {"ok", "CapabilityFailure", "ValueError"}
               /\ outcome'.value = "ok" =>
                    session' = [session EXCEPT !.idle = 0]
               /\ outcome'.value # "ok" => session' = session]_vars

\* screenshot with a selector has succeeded after two capability operations
C21_Witness ==
  /\ outcome = [op |-> "screenshot", value |-> "ok"]
  /\ invocations = 2
  /\ session.idle = 0

\* C21 (as stated): every call that reaches the capability has invoked it
\* exactly once when it ends.
C21_InvokedExactlyOnce ==
  [][(where \in CapabilityAwaits /\ where' = "idle") => invocations' = 1]_vars

\* the releases of close whose resource is still set in sess
StillSet(sess) == {r \in CloseAwaits : ReleasedField(sess, r) # sess}

\* C23: when close has returned, every resource that is still allocated has
\* had its release attempted by that close (a failing release step does not
\* keep the later ones from being attempted).
C23_EveryReleaseAttempted ==
  outcome.op = "close" => StillSet(session) \subseteq attempted

\* C24: when initialize has failed and its error has reached the caller,
\* every resource allocated before the failing step has been released, or at
\* least has had its release attempted, by the close initialize made.
C24_InitFailureReleases ==
  outcome = [op |-> "initialize", value |-> "raised"] =>
    StillSet(session) \subseteq attempted

\* C26: after close has returned, every operation called on the session
\* raises the uninitialized-session error without reaching the capability.
C26_ClosedSessionRaises ==
  [][("close" \in called /\ where = "idle"
        /\ (where' \in CapabilityAwaits \/ outcome'.op \in Operations)) =>
       (where' = "idle" /\ outcome'.value = "RuntimeError")]_vars


\* C22: a navigate or wait_for_selector call that fails by its timeout
\* changes nothing of the pool or of any session: the session stays
\* registered and initialized with its page, and an operation made on it
\* afterwards succeeds when its page operation answers.
C22_TimeoutAffectsOnlyCall ==
  [][(last'.op = "timed_operation" /\ last'.value = "500 TimeoutError") =>
       /\ sessions' = sessions
       /\ objs' = objs
       /\ <<locked, waiters, pc, cur, holding>>' = <<locked, waiters, pc, cur, holding>>
       /\ last'.id \in sessions'
       /\ objs'[last'.id].initialized
       /\ objs'[last'.id].page
       /\ Response([sessions |-> sessions', objs |-> objs'], last'.id, "ok")
            = "success"
    ]_vars

\* an operation has timed out on a registered session that has been idle
C22_Witness ==
  /\ last.op = "timed_operation"
  /\ last.value = "500 TimeoutError"
  /\ last.id \in sessions
  /\ objs[last.id].idle > 0

\* C25: once close_session(id) has returned true the identifier is gone: it
\* is not registered, it is never registered or constructed again, get_session
\* finds nothing, and an adapter operation on it answers 404 and changes
\* nothing.
C25_ClosedStaysAbsent ==
  /\ [][\A id \in Ids :
          (last'.op = "close_session" /\ last'.value = "true" /\ last'.id = id) =>
             Gone(id)']_vars
  /\ [][\A id \in Ids : Gone(id) => Gone(id)']_vars
  /\ [](\A id \in Ids : Gone(id) =>
          /\ get_session(id) = None
          /\ http_get_session(World, id) = "404")
  /\ [][(last'.op = "timed_operation" /\ Gone(last'.id)) =>
          /\ last'.value = "404"
          /\ sessions' = sessions
          /\ objs' = objs]_vars

\* an adapter operation was answered 404 for an identifier that is gone,
\* while a session created later is registered
C25_Witness ==
  /\ last.op = "timed_operation"
  /\ last.value = "404"
  /\ Gone(last.id)
  /\ \E id \in sessions : id > last.id

\* C29: when the shutdown hook of the HTTP server has run, the pool mapping is
\* empty.
C29_ShutdownEmptiesPool == last.op = "shutdown_event" => sessions = {}

\* C30: the mapping changes only in a step of create_session (which registers
\* the identifier it returns), of close_session (which removes its argument)
\* or of close_all: a step in which no handler moves (time passing, an adapter
\* operation with its lookup) leaves the mapping as it is, so an expired
\* session stays registered and is found by the lookup.
C30_OnlyPoolCallsChangeMapping ==
  /\ [][/\ pc' = pc => sessions' = sessions
        /\ last'.op = "timed_operation" =>
             /\ sessions' = sessions
             /\ (last'.value = "404") <=> (last'.id \notin sessions)
        /\ sessions' \ sessions # {} =>
             /\ last'.op = "create_session" /\ last'.value = "created"
             /\ sessions' = sessions \cup {last'.id}
        /\ \A id \in sessions \ sessions' :
             \/ last'.op = "close_all"
             \/ last'.op = "close_session" /\ last'.id = id
             \/ \E t \in Tasks : /\ cur'[t] = id
                                 /\ pc'[t] \in CloseAwaits
                                 /\ pc[t] \notin CloseAwaits
                                 /\ Top(ret'[t]) = "close_session"
       ]_vars
  /\ [](\A id \in sessions : get_session(id) = id)

\* an adapter operation has found and used a session that had expired
C30_Witness ==
  /\ last.op = "timed_operation"
  /\ last.value = "500 TimeoutError"
  /\ last.id \in sessions
  /\ IsExpired(objs[last.id].idle)


\* C28: a handler of the HTTP server invoked on a registered session that is
\* usable reaches the BrowserSession operation that does its work (the
\* set-headers handler set_extra_headers, the screenshot handler screenshot),
\* and answers success when the capability has succeeded.
C28_EndpointsReachOperation ==
  [][/\ (/\ where = "idle"
         /\ via' \in Endpoints
         /\ (where' # "idle" \/ outcome' # NoOutcome)
         /\ session.page /\ session.context) =>
          \/ where' \in CapabilityAwaits /\ op_running' = Corresponding(via')
          \/ via' = "get_network_requests" /\ outcome'.value = "ok"
     /\ (where \in CapabilityAwaits /\ where' = "idle" /\ via \in Endpoints
           /\ outcome'.value = "ok") =>
          HttpResponse(via, outcome'.value) = "success"]_vars


\* C27: while the client holds no session id, which is so before
\* create_session has succeeded and again once close_session has cleared it,
\* each of the eleven session operations raises RuntimeError at once: no
\* request is sent and the client is left as it was.
C27_NoSessionRaises ==
  /\ [](~client_created => client_session_id = None)
  /\ [][/\ (client_where = "idle" /\ client_session_id = None) =>
             ~(client_where' = "awaiting" /\ client_op' \in ClientOperations)
        /\ (client_where = "idle" /\ client_outcome'.op \in ClientOperations) =>
             /\ client_session_id = None
             /\ client_outcome'.value = "RuntimeError"
             /\ ~client_outcome'.sent
             /\ client_session_id' = client_session_id
        /\ (client_outcome'.op = "close_session" /\ client_outcome'.sent
              /\ client_outcome'.value = "True") =>
             client_session_id' = None
       ]_vars

\* an operation has raised without a request after close_session cleared the
\* session id that create_session had stored
C27_Witness ==
  /\ client_created
  /\ client_session_id = None
  /\ client_outcome = [op |-> "take_screenshot", value |-> "RuntimeError",
                       sent |-> FALSE]


\* handler t is inside a create_session call
InCreate(t) ==
  \/ pc[t] = "cs_lock_wait"
  \/ pc[t] \in InitAwaits
  \/ ret[t] # <<>> /\ ret[t][Len(ret[t])] \in {"cleanup", "init_except", "cs_except"}

\* the elements of a sequence
Range(seq) == {seq[i] : i \in DOMAIN seq}

\* C31: the sweep of a create_session call lists for eviction exactly the
\* registered sessions idle for strictly more than session_timeout, and no
\* step of a create_session call, whether the call succeeds or fails, removes
\* or closes a registered session idle for session_timeout or less.
C31_SweepEvictsOnlyExpired ==
  [][\A t \in Tasks :
       /\ CreateTakesLock(t) =>
            (IF pc'[t] = "cl_lock_wait" /\ Top(ret'[t]) = "cleanup"
             THEN {cur'[t]} \cup Range(expired_sessions'[t]) ELSE {})
              = {id \in sessions : objs[id].idle > session_timeout}
       /\ (pc'[t] # pc[t] /\ (InCreate(t) \/ InCreate(t)' \/ last'.op = "create_session")) =>
            \A id \in sessions :
              objs[id].idle <= session_timeout =>
                /\ id \in sessions'
                /\ objs'[id].closeCalls = objs[id].closeCalls
    ]_vars

\* a create_session call has failed while a session idle for exactly
\* session_timeout is registered and not closed
C31_Witness ==
  /\ last.op = "create_session"
  /\ last.value = "PoolExhausted"
  /\ \E id \in sessions : objs[id].idle = session_timeout /\ objs[id].closeCalls = 0


\* C32: a screenshot call whose selector matches no element ends with the
\* element-not-found error (ValueError) having asked the capability for no
\* screenshot and with last_activity as it was; a call without selector asks
\* for the full page when full_page is set and for the viewport otherwise, and
\* its success sets last_activity to the time of the call's end.
C32_ScreenshotBySelectorOrPage ==
  [][/\ (WithSelector /\ where = "query_selector" /\ query_selector("None")) =>
          /\ outcome' = [op |-> "screenshot", value |-> "ValueError"]
          /\ shot = "none" /\ shot' = "none"
          /\ invocations' = 1
          /\ session' = session
     /\ (where = "idle" /\ op_running' = "screenshot"
           /\ "selector" \notin DOMAIN argument') =>
          /\ where' = "capability"
          /\ shot' = IF argument'.full_page THEN "full_page" ELSE "viewport"
     /\ (op_running = "screenshot" /\ ~WithSelector /\ capability(TRUE)) =>
          /\ outcome' = [op |-> "screenshot", value |-> "ok"]
          /\ shot' = shot /\ shot \in {"full_page", "viewport"}
          /\ (shot = "full_page") = argument.full_page
          /\ session'.idle = 0
    ]_vars

C32_Witness ==
  /\ outcome = [op |-> "screenshot", value |-> "ValueError"]
  /\ "selector" \in DOMAIN argument
  /\ argument.full_page
  /\ shot = "none"
  /\ session.idle > 0
  /\ session.initialized


\* C39: when the capability fails in set_extra_headers the error is raised
\* with the headers of the call merged into the accumulated mapping and
\* last_activity as it was; no later step takes a key out of the mapping or
\* changes its value other than a set_extra_headers call that names the key,
\* and every set_extra_headers call hands the capability the whole mapping, so
\* the next successful call sends the headers of the failed one too.
C39_FailedHeadersStay ==
  [][/\ (op_running = "set_extra_headers" /\ capability(FALSE)) =>
          /\ outcome' = [op |-> "set_extra_headers", value |-> "CapabilityFailure"]
          /\ custom_headers' = custom_headers
          /\ \A k \in DOMAIN argument :
               k \in DOMAIN custom_headers' /\ custom_headers'[k] = argument[k]
          /\ session' = session
     /\ \A k \in DOMAIN custom_headers :
          /\ k \in DOMAIN custom_headers'
          /\ custom_headers'[k] # custom_headers[k] =>
               /\ where = "idle" /\ op_running' = "set_extra_headers"
               /\ k \in DOMAIN argument' /\ custom_headers'[k] = argument'[k]
     /\ (/\ outcome = [op |-> "set_extra_headers", value |-> "CapabilityFailure"]
         /\ where = "idle" /\ op_running' = "set_extra_headers") =>
          \A k \in DOMAIN argument :
            /\ k \in DOMAIN handed'
            /\ handed'[k] = IF k \in DOMAIN argument' THEN argument'[k] ELSE argument[k]
     /\ (op_running = "set_extra_headers" /\ capability(TRUE)) =>
          /\ handed = custom_headers
          /\ session'.idle = 0
    ]_vars

C39_Witness ==
  /\ outcome = [op |-> "set_extra_headers", value |-> "CapabilityFailure"]
  /\ DOMAIN argument = {"a"}
  /\ "a" \in DOMAIN custom_headers /\ custom_headers["a"] = argument["a"]
  /\ session.idle > 0


\* the records of reqs that get_requests returns
Returned(reqs) == LET G == get_requests(reqs) IN {G[k] : k \in DOMAIN G}

\* C33 (as claimed): when response.body() fails in a callback, the record the
\* callback found has its response slot populated with a null body, and
\* get_requests returns the record from then on.
C33_FailureReturnedFromThenOn ==
  [][/\ \A cb \in inflight :
          response_body(cb, FALSE) =>
            \E i \in DOMAIN requests' :
              /\ requests'[i].request_id = cb.req
              /\ requests'[i].response = <<[response |-> cb.response, body |-> "None"]>>
              /\ requests'[i] \in Returned(requests')
     /\ \A i \in DOMAIN requests :
          requests[i].response # <<>> =>
            \E j \in DOMAIN requests' :
              /\ requests'[j].request_id = requests[i].request_id
              /\ requests'[j] \in Returned(requests')
    ]_vars

\* C33 (as amended): when response.body() fails in a callback, the callback
\* ends without an error and changes nothing but the record it found: if the
\* record is still stored (no clear ran during the await) its response slot
\* holds the response with a null body and get_requests returns it; and a
\* record whose slot is populated keeps a populated slot and is returned by
\* get_requests after every step other than clear.
C33_FailureRecorded ==
  [][/\ \A cb \in inflight :
          response_body(cb, FALSE) =>
            /\ inflight' = inflight \ {cb}
            /\ Len(requests') = Len(requests)
            /\ \A i \in DOMAIN requests :
                 IF requests[i].request_id = cb.req
                 THEN /\ requests'[i].response =
                           <<[response |-> cb.response, body |-> "None"]>>
                      /\ requests'[i] \in Returned(requests')
                 ELSE requests'[i] = requests[i]
     /\ event'.op # "clear" =>
          LET returned == Returned(requests')
          IN \A i \in DOMAIN requests :
               requests[i].response # <<>> =>
                 /\ i \in DOMAIN requests'
                 /\ requests'[i].request_id = requests[i].request_id
                 /\ requests'[i].response # <<>>
                 /\ requests'[i] \in returned
    ]_vars

C33_Witness ==
  /\ event.op = "get_requests"
  /\ \E k \in DOMAIN event.result : event.result[k].response[1].body = "None"
  /\ \E i \in DOMAIN requests : requests[i].response = <<>>


\* C34: clear leaves no stored record, matched or unmatched, and leaves the
\* url filter as it was, so that get_requests returns the empty list as long
\* as nothing else has happened; every other step (set_url_pattern,
\* on_request, on_response and its completion, the queries) keeps every stored
\* record at its place.
C34_OnlyClearRemoves ==
  [][/\ event'.op = "clear" =>
          /\ requests' = <<>>
          /\ get_requests(requests') = <<>>
          /\ url_pattern' = url_pattern
     /\ (event.op = "clear" /\ event'.op \in {"get_requests", "get_network_requests"}) =>
          event'.result = <<>>
     /\ event'.op # "clear" =>
          /\ Len(requests') >= Len(requests)
          /\ \A i \in DOMAIN requests :
               /\ requests'[i].request_id = requests[i].request_id
               /\ requests'[i].url = requests[i].url
    ]_vars

C34_Witness ==
  /\ event.op = "get_requests"
  /\ event.result = <<>>
  /\ requests = <<>>
  /\ next_request_id > 2
  /\ next_response > 1
  /\ url_pattern # <<>>


\* C36: get_network_requests called with a pattern makes the pattern the
\* interceptor's filter; a call without pattern, clear, the events of the page
\* and get_requests leave the filter as it is (only the setter, which the
\* session calls from get_network_requests alone, assigns it); and while a
\* filter is set, a request or response event whose url does not match it
\* stores and starts nothing.
C36_QueryInstallsFilter ==
  [][/\ event'.op = "get_network_requests" =>
          url_pattern' = IF event'.pattern # <<>> THEN event'.pattern ELSE url_pattern
     /\ event'.op \notin {"get_network_requests", "set_url_pattern"} =>
          url_pattern' = url_pattern
     /\ (/\ event'.op \in {"on_request", "on_response"}
         /\ url_pattern # <<>>
         /\ ~Search(url_pattern, event'.url)) =>
          /\ requests' = requests
          /\ inflight' = inflight
    ]_vars

C36_Witness ==
  /\ event.op = "get_network_requests"
  /\ event.pattern = <<>>
  /\ url_pattern # <<>>
  /\ requests # <<>>


\* a response for the stored, unmatched record id has just been dropped by
\* the filter, and no earlier callback holds the record
ResponseDropped(id) ==
  /\ event.op = "on_response"
  /\ Filtered(url_pattern, event.url)
  /\ dropped = id
  /\ \E i \in DOMAIN requests :
       requests[i].request_id = id /\ requests[i].response = <<>>
  /\ \A cb \in inflight : cb.req # id

C35_BodyForBodyMethods ==
  \A i \in DOMAIN requests :
    requests[i].post_data = PostData(requests[i].method)


\* C38: a registered session that has been idle for longer than
\* session_timeout and has not been swept is served like any other (the
\* adapter answers neither 404 nor an error of its own for it); an operation
\* that succeeds on it sets last_activity to the present, after which the
\* session is not expired, and the sweep of a create_session call lists
\* exactly the sessions that are expired when the call takes the lock, so not
\* this one.
C38_OperationRevivesExpired ==
  [][/\ \A id \in sessions :
          (/\ last'.op = "timed_operation" /\ last'.id = id
           /\ IsExpired(objs[id].idle) /\ objs[id].page) =>
             /\ last'.value \in {"success", "500 TimeoutError"}
             /\ id \in sessions'
             /\ last'.value = "success" =>
                  /\ objs'[id].idle = 0
                  /\ ~IsExpired(objs'[id].idle)
                  /\ id \notin ExpiredIds([sessions |-> sessions', objs |-> objs'])
     /\ \A t \in Tasks :
          CreateTakesLock(t) =>
            \A id \in sessions :
              ~IsExpired(objs[id].idle) =>
                /\ id \in sessions'
                /\ objs'[id].closeCalls = objs[id].closeCalls
                /\ ~(pc'[t] = "cl_lock_wait" /\ cur'[t] = id)
    ]_vars

\* an operation has succeeded on a session that a sweep, stuck since at the
\* lock, had listed as expired: the session is registered and no longer expired
C38_Witness ==
  /\ last.op = "timed_operation"
  /\ last.value = "success"
  /\ last.id \in sessions
  /\ objs[last.id].idle = 0
  /\ \E t \in Tasks :
       pc[t] = "cl_lock_wait" /\ Top(ret[t]) = "cleanup" /\ cur[t] = last.id


\* C40: close_all is not terminal.  When it returns, the lock is free and the
\* other calls that queued for the lock are still queued in their order, the
\* first of them ready to take the lock; a create_session call that takes the lock
\* while the mapping is empty goes on to construct a session with a fresh
\* identifier; and a create_session call that returns an identifier has
\* registered it, whatever close_all calls have returned before.
C40_CloseAllNotTerminal ==
  [][/\ last'.op = "close_all" =>
          /\ ~locked'
          /\ waiters' = IF waiters # <<>> /\ pc'[Head(waiters)] = "idle"
                        THEN Tail(waiters) ELSE waiters
          /\ \A t \in Tasks :
               pc[t] \in {"cs_lock_wait", "cl_lock_wait"} => pc'[t] = pc[t]
          /\ waiters' # <<>> => pc'[Head(waiters')] \in LockWaits
     /\ \A t \in Tasks :
          (CreateTakesLock(t) /\ sessions = {}) =>
             /\ pc'[t] = "init_playwright"
             /\ cur'[t] = nextId
             /\ nextId' = nextId + 1
             /\ locked'
     /\ (last'.op = "create_session" /\ last'.value = "created") =>
          /\ last'.id \in sessions'
          /\ sessions' = sessions \cup {last'.id}
    ]_vars

\* close_all has returned while a create_session call waited for the lock
C40_Witness ==
  /\ last.op = "close_all"
  /\ last.closes >= 1
  /\ sessions = {}
  /\ ~locked
  /\ \E t \in Tasks : pc[t] = "cs_lock_wait" /\ waiters = <<t>>

====
